---- MODULE Spec2Model ----
(***************************************************************************)
(* BiasChannelLayer (src/caffe/layers/bias_channel_layer.cpp).             *)
(*                                                                         *)
(* One layer object (its parameter and its members bg_bias_, fg_bias_,     *)
(* ignore_label_, num_, channels_, height_, width_, max_labels_) serves    *)
(* one or more invocations; an invocation i owns its blobs bottom[0]       *)
(* (activation), bottom[1] (labels) and top[0] (output).  A blob is a      *)
(* shape <<num, channels, height, width>> and flat row-major data and      *)
(* diff arrays (1-based sequences here, offset o is element o + 1).        *)
(* Dtype values are integers: every value the layer produces is a sum of   *)
(* an activation and bias constants.  The label blob holds integer-valued  *)
(* entries, on which the static_cast<int> of lines 63, 80, 122 is exact.   *)
(* LOG(FATAL) and a failed CHECK end the process: fatal leaves "none" and  *)
(* no operation runs afterwards.                                           *)
(***************************************************************************)
EXTENDS Integers, Sequences, FiniteSets, TLC

VARIABLES layer_param, stage, bg_bias_, fg_bias_, ignore_label_,
          num_, channels_, height_, width_, max_labels_,
          b0_shape, b0_data, b0_diff, b1_shape, b1_data,
          top_shape, top_data, top_diff, propagate_down, phase, fatal, log

opvars == <<bg_bias_, fg_bias_, ignore_label_>>
dimvars == <<num_, channels_, height_, width_, max_labels_>>
bottomvars == <<b0_shape, b0_data, b1_shape, b1_data>>
vars == <<layer_param, stage, bg_bias_, fg_bias_, ignore_label_,
          num_, channels_, height_, width_, max_labels_,
          b0_shape, b0_data, b0_diff, b1_shape, b1_data,
          top_shape, top_data, top_diff, propagate_down, phase, fatal, log>>

(* ------------------------------ bounds ------------------------------- *)
MaxNum == 2
MaxChannels == 3
MaxSpatial == 2
MaxLabels == 2
\* an activation blob holds at most MaxCount entries, a label blob that is
\* filled at most MaxLabelCount
MaxCount == 6
MaxLabelCount == 2

Invs == {1, 2}
\* <<bg_bias, fg_bias>>
BiasPairs == {<<0, 2>>, <<2, 0>>, <<1, 2>>, <<-1, 1>>, <<1, -1>>, <<-1, -1>>}
LabelTypes == {"IMAGE", "PIXEL"}
IgnoreLists == {<<>>, <<0, 3>>, <<1, -2>>}
Params ==
    {[bg_bias |-> b[1], fg_bias |-> b[2], label_type |-> t, ignore_label |-> ig] :
       b \in BiasPairs, t \in LabelTypes, ig \in IgnoreLists}
LabelVals == (-2) .. MaxChannels
Seeds == {1, 2}

Shapes0 ==
    {s \in (1 .. MaxNum) \X (1 .. MaxChannels) \X (1 .. MaxSpatial) \X (1 .. MaxSpatial) :
       s[1] * s[2] * s[3] * s[4] <= MaxCount}
Shapes1 == (1 .. MaxNum) \X (0 .. MaxLabels) \X (1 .. MaxSpatial) \X (1 .. MaxSpatial)

(* ------------------------------ blobs -------------------------------- *)
Count(shape) == shape[1] * shape[2] * shape[3] * shape[4]

\* Blob::offset(n, c): the flat offset of element (n, c, 0, 0)
Offset(shape, n, c) == (n * shape[2] + c) * shape[3] * shape[4]

Zeros(k) == [x \in 1 .. k |-> 0]

Pattern(k, seed) == [x \in 1 .. k |-> ((x * seed) % 3) * 10]

\* caffe_copy(n, X, Y): Y[0 .. n-1] = X[0 .. n-1]
caffe_copy(n, X, Y) == [k \in 1 .. Len(Y) |-> IF k <= n THEN X[k] ELSE Y[k]]

\* caffe_add_scalar(N, alpha, Y + off): Y[off .. off+N-1] += alpha
caffe_add_scalar(N, alpha, Y, off) ==
    [k \in 1 .. Len(Y) |-> IF off < k /\ k <= off + N THEN Y[k] + alpha ELSE Y[k]]

SeqToSet(s) == {s[k] : k \in 1 .. Len(s)}

(* ----------------------------- LayerSetUp ---------------------------- *)
\* LayerSetUp with the CHECK_GE on fg_bias_ left out
LayerSetUpNoFgCheck(param, ignore) ==
    LET bg == param.bg_bias
        fg == param.fg_bias
    IN  IF ~(bg >= 0)
        THEN [bg |-> bg, fg |-> fg, ignore |-> ignore, fatal |-> TRUE]
        ELSE [bg |-> bg, fg |-> fg,
              ignore |-> (ignore \cup {-1}) \cup {param.ignore_label[k] : k \in DOMAIN param.ignore_label},
              fatal |-> FALSE]

\* lines 12-21: the members after LayerSetUp on parameter param, and whether
\* a CHECK_GE failed (the biases are stored before they are checked, the
\* ignore set is built only after both checks passed)
LayerSetUpResult(param, ignore) ==
    LET bg == param.bg_bias
        fg == param.fg_bias
    IN  IF ~(bg >= 0) \/ ~(fg >= 0)
        THEN [bg |-> bg, fg |-> fg, ignore |-> ignore, fatal |-> TRUE]
        ELSE [bg |-> bg, fg |-> fg,
              ignore |-> (ignore \cup {-1}) \cup SeqToSet(param.ignore_label),
              fatal |-> FALSE]

(* ------------------------------ Reshape ------------------------------ *)
\* Reshape with the pixel-mode CHECK_EQ on the label width left out
ReshapeChecksNoWidth(label_type, s0, s1) ==
    /\ s1[1] = s0[1]
    /\ s1[2] >= 1
    /\ CASE label_type = "IMAGE" -> s1[3] = 1 /\ s1[4] = 1
         [] label_type = "PIXEL" -> s1[2] = 1 /\ s1[3] = s0[3]
         [] OTHER -> FALSE

\* lines 34-49: do all the CHECKs of Reshape pass
ReshapeChecks(label_type, s0, s1) ==
    /\ s1[1] = s0[1]
    /\ s1[2] >= 1
    /\ CASE label_type = "IMAGE" -> s1[3] = 1 /\ s1[4] = 1
         [] label_type = "PIXEL" -> s1[2] = 1 /\ s1[3] = s0[3] /\ s1[4] = s0[4]
         [] OTHER -> FALSE

\* Reshape taking max_labels_ from the label blob's batch size
ReshapeResultLabelsFromNum(label_type, s0, s1, old_max_labels) ==
    [dims |-> <<s0[1], s0[2], s0[3], s0[4],
                IF s1[1] = s0[1] THEN s1[1] ELSE old_max_labels>>,
     ok |-> ReshapeChecks(label_type, s0, s1)]

\* lines 27-51: the members <<num_, channels_, height_, width_, max_labels_>>
\* Reshape leaves, and whether it went on to reshape top[0]; max_labels_ is
\* assigned only after the batch-size CHECK
ReshapeResult(label_type, s0, s1, old_max_labels) ==
    [dims |-> <<s0[1], s0[2], s0[3], s0[4],
                IF s1[1] = s0[1] THEN s1[2] ELSE old_max_labels>>,
     ok |-> ReshapeChecks(label_type, s0, s1)]

(* ------------------------------ Forward ------------------------------ *)
\* The layer as Forward reads it.
Layer ==
    [bg |-> bg_bias_, fg |-> fg_bias_, ignore |-> ignore_label_,
     label_type |-> layer_param.label_type,
     num |-> num_, channels |-> channels_, height |-> height_,
     width |-> width_, max_labels |-> max_labels_]

\* Y[off] += alpha; a store outside the buffer does not land in it
AddAt(Y, off, alpha) ==
    [k \in 1 .. Len(Y) |-> IF k = off + 1 THEN Y[k] + alpha ELSE Y[k]]

InBuf(Y, off) == 0 <= off /\ off < Len(Y)

\* the image-mode chain with an out-of-range label skipped instead of fatal
ImageBranchCpuSkipsInvalid(label, ignore, channels) ==
    IF label \in ignore THEN "continue"
    ELSE IF label >= 0 /\ label < channels THEN "bias"
    ELSE "continue"

\* lines 64-72: which branch a label slot takes in image mode
ImageBranchCpu(label, ignore, channels) ==
    IF label \in ignore THEN "continue"
    ELSE IF label >= 0 /\ label < channels THEN "bias"
    ELSE "fatal"

\* line 68 with the two biases exchanged
ImageBiasCpuSwapped(label, bg, fg) == IF label = 0 THEN fg ELSE bg

\* line 68
ImageBiasCpu(label, bg, fg) == IF label = 0 THEN bg ELSE fg

\* lines 63-72: slot j of sample n.  r is the run so far: the top data, whether
\* LOG(FATAL) was reached and on which label, and whether an access left its
\* buffer (oob); junk is what a load outside the label buffer returns
ImageStepCpu(L, b1s, b1d, ts, n, j, r, junk) ==
    LET loff == Offset(b1s, n, j)
        lin == InBuf(b1d, loff)
        label == IF lin THEN b1d[loff + 1] ELSE junk
        br == ImageBranchCpu(label, L.ignore, L.channels)
        toff == Offset(ts, n, label)
        N == L.height * L.width
    IN  CASE br = "continue" -> [r EXCEPT !.oob = @ \/ ~lin]
          [] br = "bias" ->
               [r EXCEPT !.data = caffe_add_scalar(N, ImageBiasCpu(label, L.bg, L.fg), @, toff),
                         !.oob = @ \/ ~lin \/ toff + N > Len(r.data)]
          [] OTHER -> [r EXCEPT !.fatal = TRUE, !.label = label, !.oob = @ \/ ~lin]

\* lines 60-62: the loops over n and j, entry e = n * max_labels_ + j
RECURSIVE ImageLoopCpu(_, _, _, _, _, _, _)
ImageLoopCpu(L, b1s, b1d, ts, e, r, junk) ==
    IF e >= L.num * L.max_labels \/ r.fatal THEN r
    ELSE ImageLoopCpu(L, b1s, b1d, ts, e + 1,
                      ImageStepCpu(L, b1s, b1d, ts, e \div L.max_labels,
                                   e % L.max_labels, r, junk), junk)

\* the pixel-mode chain with the label == 0 test ahead of the ignore test
PixelBranchRangeFirst(label, ignore, channels) ==
    IF label = 0 THEN "bg"
    ELSE IF label \in ignore THEN "continue"
    ELSE IF label > 0 /\ label < channels THEN "fgbg"
    ELSE "fatal"

\* lines 81-91: which branch a pixel takes in pixel mode
PixelBranch(label, ignore, channels) ==
    IF label \in ignore THEN "continue"
    ELSE IF label = 0 THEN "bg"
    ELSE IF label > 0 /\ label < channels THEN "fgbg"
    ELSE "fatal"

\* a foreground pixel biasing its own channel only
PixelStoreFgOnly(data, br, toff, j, label, spatial_dim, bg, fg) ==
    IF br = "bg" THEN [k \in 1 .. Len(data) |-> IF k = toff + j + 1 THEN data[k] + bg ELSE data[k]]
    ELSE [k \in 1 .. Len(data) |->
            IF k = toff + label * spatial_dim + j + 1 THEN data[k] + fg ELSE data[k]]

\* lines 84, 87-88: the stores of a biased pixel, top_data = top + toff
PixelStore(data, br, toff, j, label, spatial_dim, bg, fg) ==
    IF br = "bg" THEN AddAt(data, toff + j, bg)
    ELSE AddAt(AddAt(data, toff + j, bg), toff + label * spatial_dim + j, fg)

\* lines 76-91: pixel j of sample n
PixelStep(L, b1s, b1d, ts, n, j, r, junk) ==
    LET loff == Offset(b1s, n, 0) + j
        lin == InBuf(b1d, loff)
        label == IF lin THEN b1d[loff + 1] ELSE junk
        br == PixelBranch(label, L.ignore, L.channels)
        toff == Offset(ts, n, 0)
        spatial_dim == L.height * L.width
    IN  CASE br = "continue" -> [r EXCEPT !.oob = @ \/ ~lin]
          [] br = "fatal" -> [r EXCEPT !.fatal = TRUE, !.label = label, !.oob = @ \/ ~lin]
          [] OTHER ->
               [r EXCEPT !.data = PixelStore(@, br, toff, j, label, spatial_dim, L.bg, L.fg),
                         !.oob = @ \/ ~lin \/ ~InBuf(r.data, toff + j)
                                   \/ (br = "fgbg" /\ ~InBuf(r.data, toff + label * spatial_dim + j))]

\* lines 60, 78-79: the loops over n and j, entry e = n * spatial_dim + j
RECURSIVE PixelLoop(_, _, _, _, _, _, _)
PixelLoop(L, b1s, b1d, ts, e, r, junk) ==
    IF e >= L.num * (L.height * L.width) \/ r.fatal THEN r
    ELSE PixelLoop(L, b1s, b1d, ts, e + 1,
                   PixelStep(L, b1s, b1d, ts, e \div (L.height * L.width),
                             e % (L.height * L.width), r, junk), junk)

\* line 59 (and 119): the run before the first label is read
Copied(b0d, td) ==
    [data |-> caffe_copy(Len(b0d), b0d, td), fatal |-> FALSE, label |-> 0, oob |-> FALSE]

\* lines 55-95
ForwardCpuResult(L, b0d, b1s, b1d, ts, td, junk) ==
    IF L.label_type = "IMAGE"
    THEN ImageLoopCpu(L, b1s, b1d, ts, 0, Copied(b0d, td), junk)
    ELSE IF L.label_type = "PIXEL"
    THEN PixelLoop(L, b1s, b1d, ts, 0, Copied(b0d, td), junk)
    ELSE Copied(b0d, td)

\* lines 123-131
ImageBranchGpu(label, ignore, channels) ==
    IF label \in ignore THEN "continue"
    ELSE IF label >= 0 /\ label < channels THEN "bias"
    ELSE "fatal"

\* line 127 with every channel given the foreground bias
ImageBiasGpuAlwaysFg(label, bg, fg) == fg

\* line 127
ImageBiasGpu(label, bg, fg) == IF label = 0 THEN bg ELSE fg

\* lines 122-131: slot j of sample n on the accelerated path (the labels are
\* read from host memory, the scalar is added on the device)
ImageStepGpu(L, b1s, b1d, ts, n, j, r, junk) ==
    LET loff == Offset(b1s, n, j)
        lin == InBuf(b1d, loff)
        label == IF lin THEN b1d[loff + 1] ELSE junk
        br == ImageBranchGpu(label, L.ignore, L.channels)
        toff == Offset(ts, n, label)
        N == L.height * L.width
    IN  CASE br = "continue" -> [r EXCEPT !.oob = @ \/ ~lin]
          [] br = "bias" ->
               [r EXCEPT !.data = caffe_add_scalar(N, ImageBiasGpu(label, L.bg, L.fg), @, toff),
                         !.oob = @ \/ ~lin \/ toff + N > Len(r.data)]
          [] OTHER -> [r EXCEPT !.fatal = TRUE, !.label = label, !.oob = @ \/ ~lin]

\* lines 120-121
RECURSIVE ImageLoopGpu(_, _, _, _, _, _, _)
ImageLoopGpu(L, b1s, b1d, ts, e, r, junk) ==
    IF e >= L.num * L.max_labels \/ r.fatal THEN r
    ELSE ImageLoopGpu(L, b1s, b1d, ts, e + 1,
                      ImageStepGpu(L, b1s, b1d, ts, e \div L.max_labels,
                                   e % L.max_labels, r, junk), junk)

\* lines 110-134: pixel mode delegates to Forward_cpu and returns
ForwardGpuResult(L, b0d, b1s, b1d, ts, td, junk) ==
    IF L.label_type = "PIXEL"
    THEN ForwardCpuResult(L, b0d, b1s, b1d, ts, td, junk)
    ELSE ImageLoopGpu(L, b1s, b1d, ts, 0, Copied(b0d, td), junk)

(* ------------------------------ Backward ----------------------------- *)
\* Backward_cpu with the copy ahead of the label-gradient test
BackwardCpuCopyFirst(pd0, pd1, count, tdiff, bdiff) ==
    LET copied == IF pd0 THEN [k \in 1 .. Len(bdiff) |-> IF k <= count THEN tdiff[k] ELSE bdiff[k]]
                  ELSE bdiff
    IN  [fatal |-> pd1, diff |-> copied]

\* lines 100-105: the activation gradient after Backward_cpu, and whether
\* LOG(FATAL) was reached
BackwardCpuResult(pd0, pd1, count, tdiff, bdiff) ==
    IF pd1 THEN [fatal |-> TRUE, diff |-> bdiff]
    ELSE IF pd0 THEN [fatal |-> FALSE, diff |-> caffe_copy(count, tdiff, bdiff)]
    ELSE [fatal |-> FALSE, diff |-> bdiff]

\* Backward_gpu copying one element too few
BackwardGpuShortCopy(pd0, pd1, count, tdiff, bdiff) ==
    IF pd1 THEN [fatal |-> TRUE, diff |-> bdiff]
    ELSE IF pd0
    THEN [fatal |-> FALSE,
          diff |-> [k \in 1 .. Len(bdiff) |-> IF k <= count - 1 THEN tdiff[k] ELSE bdiff[k]]]
    ELSE [fatal |-> FALSE, diff |-> bdiff]

\* lines 140-145
BackwardGpuResult(pd0, pd1, count, tdiff, bdiff) ==
    IF pd1 THEN [fatal |-> TRUE, diff |-> bdiff]
    ELSE IF pd0 THEN [fatal |-> FALSE, diff |-> caffe_copy(count, tdiff, bdiff)]
    ELSE [fatal |-> FALSE, diff |-> bdiff]

(* ---------------------- state machine of the layer ------------------- *)
\* After construction: the parameter is fixed, the members are not yet set
\* (nothing reads them before LayerSetUp and Reshape wrote them), no blob is
\* bound.
InitWith(params) ==
    /\ layer_param \in params
    /\ stage = "constructed"
    /\ bg_bias_ = 0 /\ fg_bias_ = 0 /\ ignore_label_ = {}
    /\ num_ = 0 /\ channels_ = 0 /\ height_ = 0 /\ width_ = 0 /\ max_labels_ = 0
    /\ b0_shape = [i \in Invs |-> <<0, 0, 0, 0>>]
    /\ b1_shape = [i \in Invs |-> <<0, 0, 0, 0>>]
    /\ top_shape = [i \in Invs |-> <<0, 0, 0, 0>>]
    /\ b0_data = [i \in Invs |-> <<>>]
    /\ b0_diff = [i \in Invs |-> <<>>]
    /\ b1_data = [i \in Invs |-> <<>>]
    /\ top_data = [i \in Invs |-> <<>>]
    /\ top_diff = [i \in Invs |-> <<>>]
    /\ propagate_down = [i \in Invs |-> <<FALSE, FALSE>>]
    /\ phase = [i \in Invs |-> "new"]
    /\ fatal = "none"
    /\ log = <<>>

Init == InitWith(Params)

\* lines 10-22.  It reads only the layer's own parameter, so running it again
\* stores the same members.
LayerSetUp ==
    /\ fatal = "none"
    /\ LET r == LayerSetUpResult(layer_param, ignore_label_)
       IN  /\ bg_bias_' = r.bg
           /\ fg_bias_' = r.fg
           /\ ignore_label_' = r.ignore
           /\ fatal' = IF r.fatal THEN "bias" ELSE "none"
           /\ stage' = IF r.fatal THEN stage ELSE "ready"
           /\ log' = IF r.fatal THEN <<"bias needs to be positive">> ELSE log
    /\ UNCHANGED <<layer_param, dimvars, bottomvars, b0_diff, top_shape, top_data,
                   top_diff, propagate_down, phase>>

\* The caller binds blobs of some shapes to invocation i (freshly allocated
\* blobs hold zeros).
Bind(i, shapes0, shapes1) ==
    /\ fatal = "none" /\ stage = "ready" /\ phase[i] = "new"
    /\ \E s0 \in shapes0, s1 \in shapes1 :
         /\ b0_shape' = [b0_shape EXCEPT ![i] = s0]
         /\ b1_shape' = [b1_shape EXCEPT ![i] = s1]
         /\ b0_data' = [b0_data EXCEPT ![i] = Zeros(Count(s0))]
         /\ b0_diff' = [b0_diff EXCEPT ![i] = Zeros(Count(s0))]
         /\ b1_data' = [b1_data EXCEPT ![i] = Zeros(Count(s1))]
    /\ phase' = [phase EXCEPT ![i] = "bound"]
    /\ UNCHANGED <<layer_param, stage, opvars, dimvars, top_shape, top_data, top_diff,
                   propagate_down, fatal, log>>

\* lines 24-52
Reshape(i) ==
    /\ fatal = "none" /\ stage = "ready" /\ phase[i] = "bound"
    /\ LET r == ReshapeResult(layer_param.label_type, b0_shape[i], b1_shape[i], max_labels_)
           ts == <<r.dims[1], r.dims[2], r.dims[3], r.dims[4]>>
       IN  /\ num_' = r.dims[1]
           /\ channels_' = r.dims[2]
           /\ height_' = r.dims[3]
           /\ width_' = r.dims[4]
           /\ max_labels_' = r.dims[5]
           /\ IF r.ok
              THEN /\ top_shape' = [top_shape EXCEPT ![i] = ts]
                   /\ top_data' = [top_data EXCEPT ![i] = Zeros(Count(ts))]
                   /\ top_diff' = [top_diff EXCEPT ![i] = Zeros(Count(ts))]
                   /\ phase' = [phase EXCEPT ![i] = "shaped"]
                   /\ UNCHANGED <<fatal, log>>
              ELSE /\ fatal' = "shape"
                   /\ log' = <<"shape mismatch">>
                   /\ UNCHANGED <<top_shape, top_data, top_diff, phase>>
    /\ UNCHANGED <<layer_param, stage, opvars, bottomvars, b0_diff, propagate_down>>

\* The caller fills the activation and the labels of invocation i.
Fill(i, labelvals, seeds) ==
    /\ fatal = "none" /\ phase[i] = "shaped"
    /\ Count(b1_shape[i]) <= MaxLabelCount
    /\ \E seed \in seeds :
         b0_data' = [b0_data EXCEPT ![i] = Pattern(Count(b0_shape[i]), seed)]
    /\ \E labels \in [1 .. Count(b1_shape[i]) -> labelvals] :
         b1_data' = [b1_data EXCEPT ![i] = labels]
    /\ phase' = [phase EXCEPT ![i] = "filled"]
    /\ UNCHANGED <<layer_param, stage, opvars, dimvars, b0_shape, b1_shape, b0_diff,
                   top_shape, top_data, top_diff, propagate_down, fatal, log>>

\* What a Forward run r leaves.  A run that left a buffer is undefined
\* behaviour: besides going on with what landed in the buffer, it may crash.
ForwardEnds(i, r) ==
    /\ top_data' = [top_data EXCEPT ![i] = r.data]
    /\ IF r.fatal
       THEN /\ fatal' = "label"
            /\ log' = <<"Unexpected label", r.label>>
            /\ phase' = phase
       ELSE \E crash \in {FALSE, r.oob} :
              /\ fatal' = IF crash THEN "segv" ELSE "none"
              /\ phase' = IF crash THEN phase ELSE [phase EXCEPT ![i] = "forwarded"]
              /\ log' = log
    /\ UNCHANGED <<layer_param, stage, opvars, dimvars, bottomvars, b0_diff,
                   top_shape, top_diff, propagate_down>>

\* what a load outside the label buffer may return (no load leaves the buffer
\* in a run that ends with oob unset, whatever junk is)
JunkVals == {-1, 1}

\* lines 54-95
Forward_cpu(i) ==
    /\ fatal = "none" /\ phase[i] = "filled"
    /\ LET r == ForwardCpuResult(Layer, b0_data[i], b1_shape[i], b1_data[i],
                                 top_shape[i], top_data[i], -1)
       IN  IF ~r.oob
           THEN ForwardEnds(i, r)
           ELSE \E junk \in JunkVals :
                  ForwardEnds(i, ForwardCpuResult(Layer, b0_data[i], b1_shape[i], b1_data[i],
                                                  top_shape[i], top_data[i], junk))

\* lines 109-134
Forward_gpu(i) ==
    /\ fatal = "none" /\ phase[i] = "filled"
    /\ LET r == ForwardGpuResult(Layer, b0_data[i], b1_shape[i], b1_data[i],
                                 top_shape[i], top_data[i], -1)
       IN  IF ~r.oob
           THEN ForwardEnds(i, r)
           ELSE \E junk \in JunkVals :
                  ForwardEnds(i, ForwardGpuResult(Layer, b0_data[i], b1_shape[i], b1_data[i],
                                                  top_shape[i], top_data[i], junk))

\* The caller writes the gradient of the output.
SetDiff(i, seeds) ==
    /\ fatal = "none" /\ phase[i] = "forwarded"
    /\ \E seed \in seeds :
         top_diff' = [top_diff EXCEPT ![i] = Pattern(Count(top_shape[i]), seed)]
    /\ phase' = [phase EXCEPT ![i] = "graded"]
    /\ UNCHANGED <<layer_param, stage, opvars, dimvars, bottomvars, b0_diff,
                   top_shape, top_data, propagate_down, fatal, log>>

BackwardEnds(i, pd0, pd1, r) ==
    /\ propagate_down' = [propagate_down EXCEPT ![i] = <<pd0, pd1>>]
    /\ b0_diff' = [b0_diff EXCEPT ![i] = r.diff]
    /\ fatal' = IF r.fatal THEN "label_grad" ELSE "none"
    /\ log' = IF r.fatal THEN <<"Cannot propagate down to label input">> ELSE log
    /\ phase' = IF r.fatal THEN phase ELSE [phase EXCEPT ![i] = "backed"]
    /\ UNCHANGED <<layer_param, stage, opvars, dimvars, bottomvars,
                   top_shape, top_data, top_diff>>

\* lines 97-106
Backward_cpu(i) ==
    /\ fatal = "none" /\ phase[i] = "graded"
    /\ \E pd0 \in BOOLEAN, pd1 \in BOOLEAN :
         BackwardEnds(i, pd0, pd1, BackwardCpuResult(pd0, pd1, Count(b0_shape[i]),
                                           top_diff[i], b0_diff[i]))

\* lines 137-146
Backward_gpu(i) ==
    /\ fatal = "none" /\ phase[i] = "graded"
    /\ \E pd0 \in BOOLEAN, pd1 \in BOOLEAN :
         BackwardEnds(i, pd0, pd1, BackwardGpuResult(pd0, pd1, Count(b0_shape[i]),
                                           top_diff[i], b0_diff[i]))

\* One invocation at a time: Setup, then Reshape, Forward and Backward of the
\* blobs bound to invocation 1.
Next ==
    \/ LayerSetUp
    \/ Bind(1, Shapes0, Shapes1)
    \/ Reshape(1)
    \/ Fill(1, LabelVals, Seeds)
    \/ Forward_cpu(1)
    \/ Forward_gpu(1)
    \/ SetDiff(1, Seeds)
    \/ Backward_cpu(1)
    \/ Backward_gpu(1)

Spec == Init /\ [][Next]_vars

(* --------------- several invocations sharing the layer --------------- *)
\* The inputs of the interleaved invocations: one-pixel activations of one or
\* two samples and one or two channels, one label per sample (a shape both
\* label modes accept), valid biases, no listed ignore label.
ConcParams ==
    {[bg_bias |-> 1, fg_bias |-> 2, label_type |-> t, ignore_label |-> <<>>] :
       t \in LabelTypes}
ConcShapes0 == {<<1, 1, 1, 1>>, <<1, 2, 1, 1>>, <<2, 1, 1, 1>>, <<2, 2, 1, 1>>}
ConcShapes1 == {<<1, 1, 1, 1>>, <<2, 1, 1, 1>>}
ConcLabelVals == {-1, 0, 1}
ConcSeeds == {1}

InitConc == InitWith(ConcParams)

\* Each invocation runs its own Reshape, Forward and Backward on its own
\* blobs; the steps of different invocations interleave in any order.
NextConc ==
    \/ LayerSetUp
    \/ \E i \in Invs :
         \/ Bind(i, ConcShapes0, ConcShapes1)
         \/ Reshape(i)
         \/ Fill(i, ConcLabelVals, ConcSeeds)
         \/ Forward_cpu(i)
         \/ Forward_gpu(i)
         \/ SetDiff(i, ConcSeeds)
         \/ Backward_cpu(i)
         \/ Backward_gpu(i)

SpecConc == InitConc /\ [][NextConc]_vars


(* ------------------------------ properties --------------------------- *)
\* Elements of the blobs of invocation i, by their coordinates.
Act(i, n, c, p) == b0_data[i][(n * b0_shape[i][2] + c) * (b0_shape[i][3] * b0_shape[i][4]) + p + 1]
Out(i, n, c, p) == top_data[i][(n * b0_shape[i][2] + c) * (b0_shape[i][3] * b0_shape[i][4]) + p + 1]
Samples(i) == 0 .. (b0_shape[i][1] - 1)
Chans(i) == 0 .. (b0_shape[i][2] - 1)
Pixels(i) == 0 .. (b0_shape[i][3] * b0_shape[i][4] - 1)
Slots(i) == 0 .. (b1_shape[i][2] - 1)
SlotLabel(i, n, j) == b1_data[i][n * b1_shape[i][2] + j + 1]
PixelLabel(i, n, p) == b1_data[i][n * (b0_shape[i][3] * b0_shape[i][4]) + p + 1]
Entries(i) == 1 .. Len(b1_data[i])

IsImage == layer_param.label_type = "IMAGE"
IsPixel == layer_param.label_type = "PIXEL"
Completed(i) == phase[i] \in {"forwarded", "graded", "backed"}
Ignored(label) == label \in ignore_label_
InRange(i, label) == 0 <= label /\ label < b0_shape[i][2]
Offending(i, k) == ~Ignored(b1_data[i][k]) /\ ~InRange(i, b1_data[i][k])
AllLabelsValid(i) == \A k \in Entries(i) : ~Offending(i, k)
BiasOf(c) == IF c = 0 THEN bg_bias_ ELSE fg_bias_

\* C1.  Image-mode Forward: once Forward completed, every element of channel
\* c of sample n is the activation plus k times the channel's bias, k the
\* number of slots of sample n that name c and are not ignored (duplicates
\* accumulate, unnamed channels are untouched, slot order is irrelevant); and
\* Forward does complete when every slot is ignored or in [0, C).
C1_ImageForward ==
    IsImage =>
      /\ (fatal = "label" => ~AllLabelsValid(1))
      /\ (Completed(1) /\ AllLabelsValid(1)) =>
           \A n \in Samples(1), c \in Chans(1), p \in Pixels(1) :
             Out(1, n, c, p) = Act(1, n, c, p)
                 + Cardinality({j \in Slots(1) : SlotLabel(1, n, j) = c /\ ~Ignored(c)}) * BiasOf(c)

\* a completed image-mode Forward with two slots naming foreground channel 1
\* of a three-channel activation, channel 2 named by none
C1_Witness ==
    /\ IsImage /\ Completed(1)
    /\ b0_shape[1][2] = 3 /\ b0_shape[1][3] * b0_shape[1][4] = 2
    /\ b1_data[1] = <<1, 1>> /\ ~Ignored(1) /\ fg_bias_ = 2
    /\ Out(1, 0, 1, 1) = Act(1, 0, 1, 1) + 4
    /\ Out(1, 0, 2, 0) = Act(1, 0, 2, 0)

\* C2.  Pixel-mode Forward: once Forward completed, at a pixel whose label is
\* ignored nothing changed; otherwise channel 0 at that pixel carries +bg_bias
\* and, for a label l > 0, channel l carries +fg_bias; every other element
\* equals the activation.
C2_PixelForward ==
    IsPixel =>
      /\ (fatal = "label" => ~AllLabelsValid(1))
      /\ (Completed(1) /\ AllLabelsValid(1)) =>
           \A n \in Samples(1), c \in Chans(1), p \in Pixels(1) :
             LET l == PixelLabel(1, n, p)
             IN  Out(1, n, c, p) = Act(1, n, c, p)
                     + (IF Ignored(l) THEN 0
                        ELSE IF c = 0 THEN bg_bias_
                        ELSE IF c = l THEN fg_bias_ ELSE 0)

\* a completed pixel-mode Forward over three channels with a pixel labelled 2
\* next to an ignored pixel: channels 0 and 2 biased, channel 1 not
C2_Witness ==
    /\ IsPixel /\ Completed(1)
    /\ b0_shape[1][2] = 3 /\ bg_bias_ = 1 /\ fg_bias_ = 2
    /\ b1_data[1] = <<2, -1>>
    /\ Out(1, 0, 0, 0) = Act(1, 0, 0, 0) + 1
    /\ Out(1, 0, 2, 0) = Act(1, 0, 2, 0) + 2
    /\ Out(1, 0, 1, 0) = Act(1, 0, 1, 0)
    /\ Out(1, 0, 0, 1) = Act(1, 0, 0, 1)

\* The output after exactly the label entries 1 .. m (in iteration order:
\* sample-major, then slot or pixel) have been applied.
PartialOut(i, m, n, c, p) ==
    Act(i, n, c, p)
      + (IF IsImage
         THEN Cardinality({k \in 1 .. m :
                             /\ (k - 1) \div b1_shape[i][2] = n
                             /\ b1_data[i][k] = c
                             /\ ~Ignored(c)}) * BiasOf(c)
         ELSE LET k == n * (b0_shape[i][3] * b0_shape[i][4]) + p + 1
                  l == b1_data[i][k]
              IN  IF k > m \/ Ignored(l) THEN 0
                  ELSE IF c = 0 THEN bg_bias_
                  ELSE IF c = l THEN fg_bias_ ELSE 0)

FirstOffending(i) == CHOOSE k \in Entries(i) :
                        Offending(i, k) /\ \A k2 \in 1 .. (k - 1) : ~Offending(i, k2)

\* C3.  In both modes Forward never completes when some label entry is not
\* ignored and outside [0, C); it ends in the fatal invalid-label state on the
\* first such entry, reporting its value, with the biases of exactly the
\* entries before it written to the output.
C3_InvalidLabelFatal ==
    /\ Completed(1) => AllLabelsValid(1)
    /\ fatal = "label" =>
         /\ ~AllLabelsValid(1)
         /\ phase[1] = "filled"
         /\ LET first == FirstOffending(1)
            IN  /\ log = <<"Unexpected label", b1_data[1][first]>>
                /\ \A n \in Samples(1), c \in Chans(1), p \in Pixels(1) :
                     Out(1, n, c, p) = PartialOut(1, first - 1, n, c, p)

\* image mode, two samples: the first sample's slot was biased, the second
\* sample's slot holds C and ended the run
C3_Witness ==
    /\ fatal = "label" /\ IsImage
    /\ b0_shape[1][1] = 2 /\ b0_shape[1][2] = 2
    /\ b1_data[1] = <<0, 2>> /\ bg_bias_ = 2 /\ ~Ignored(0)
    /\ log = <<"Unexpected label", 2>>
    /\ Out(1, 0, 0, 0) = Act(1, 0, 0, 0) + 2
    /\ Out(1, 1, 0, 0) = Act(1, 1, 0, 0)

ListedIgnore == {layer_param.ignore_label[k] : k \in DOMAIN layer_param.ignore_label}
Untouched(i) == phase[i] = "new"

\* C4.  With a negative bias LayerSetUp ends in the fatal state and nothing
\* else ever runs; otherwise, in every state after it, the stored biases are
\* the parameter's and non-negative and the ignore set is exactly the listed
\* values together with -1 (so Reshape, Forward and Backward never change
\* them).
C4_Setup ==
    /\ (layer_param.bg_bias < 0 \/ layer_param.fg_bias < 0) =>
         (stage = "constructed" /\ fatal \in {"none", "bias"} /\ \A i \in Invs : Untouched(i))
    /\ fatal = "bias" => (layer_param.bg_bias < 0 \/ layer_param.fg_bias < 0)
    /\ stage = "ready" =>
         /\ bg_bias_ = layer_param.bg_bias /\ bg_bias_ >= 0
         /\ fg_bias_ = layer_param.fg_bias /\ fg_bias_ >= 0
         /\ -1 \in ignore_label_
         /\ ignore_label_ = ListedIgnore \cup {-1}

\* after a whole Setup, Reshape, Forward, Backward round with bg_bias = 0
C4_Witness ==
    /\ stage = "ready" /\ phase[1] = "backed"
    /\ bg_bias_ = 0 /\ fg_bias_ = 2 /\ ignore_label_ = {-1, 0, 3}

ShapesAgree(i) ==
    /\ b1_shape[i][1] = b0_shape[i][1]
    /\ \/ IsImage /\ b1_shape[i][2] >= 1 /\ b1_shape[i][3] = 1 /\ b1_shape[i][4] = 1
       \/ IsPixel /\ b1_shape[i][2] = 1 /\ b1_shape[i][3] = b0_shape[i][3]
                  /\ b1_shape[i][4] = b0_shape[i][4]
Reshaped(i) == phase[i] \in {"shaped", "filled", "forwarded", "graded", "backed"}

\* C5.  Reshape succeeds, with the output shape the activation's, exactly
\* when the batch sizes agree and the label blob is (>= 1 channels, 1x1) in
\* image mode or (1 channel, HxW) in pixel mode; otherwise it ends in the
\* fatal shape state with the output not reshaped, and no Forward runs.
C5_Reshape ==
    /\ Reshaped(1) => (ShapesAgree(1) /\ top_shape[1] = b0_shape[1])
    /\ fatal = "shape" =>
         (~ShapesAgree(1) /\ top_shape[1] = <<0, 0, 0, 0>> /\ phase[1] = "bound")

\* pixel mode, the label blob differing from the activation in width only
C5_Witness ==
    /\ fatal = "shape" /\ IsPixel
    /\ b1_shape[1][1] = b0_shape[1][1] /\ b1_shape[1][2] = 1
    /\ b1_shape[1][3] = b0_shape[1][3] /\ b1_shape[1][4] # b0_shape[1][4]

\* C6.  A Backward asked for the label gradient ends in the fatal state with
\* the activation gradient as it was, also when the activation gradient is
\* asked for too; and only such a Backward ends fatally.
C6_LabelGradFatal ==
    [][(phase[1] = "graded" /\ fatal = "none") =>
         /\ propagate_down'[1][2] =>
              (fatal' = "label_grad" /\ b0_diff' = b0_diff /\ phase' = phase)
         /\ fatal' = "label_grad" => propagate_down'[1][2]]_vars

C6_Witness ==
    /\ fatal = "label_grad" /\ propagate_down[1] = <<TRUE, TRUE>>
    /\ b0_diff[1] = Zeros(Count(b0_shape[1]))
    /\ top_diff[1] # Zeros(Count(b0_shape[1]))

\* C7.  A Backward not asked for the label gradient completes; the
\* activation gradient then is the output gradient if it was asked for and is
\* unchanged if not; the output gradient, the data of all blobs and the
\* layer's members are unchanged.
C7_BackwardCopies ==
    [][(phase[1] = "graded" /\ fatal = "none" /\ ~propagate_down'[1][2]) =>
         /\ phase'[1] = "backed" /\ fatal' = "none"
         /\ b0_diff'[1] = IF propagate_down'[1][1] THEN top_diff[1] ELSE b0_diff[1]
         /\ UNCHANGED <<top_diff, b0_data, b1_data, top_data, layer_param, opvars, dimvars>>]_vars

C7_Witness ==
    /\ phase[1] = "backed" /\ propagate_down[1] = <<TRUE, FALSE>> /\ IsPixel
    /\ b0_diff[1] = top_diff[1]
    /\ Len(top_diff[1]) = 6 /\ top_diff[1] # Zeros(6)

\* Forward is about to run on the filled blobs, or has just run
AtForward(i) == phase[i] \in {"filled", "forwarded"}
CpuRun(i) == ForwardCpuResult(Layer, b0_data[i], b1_shape[i], b1_data[i],
                              top_shape[i], top_data[i], -1)
GpuRun(i) == ForwardGpuResult(Layer, b0_data[i], b1_shape[i], b1_data[i],
                              top_shape[i], top_data[i], -1)

\* C8.  On every filled input Forward_gpu and Forward_cpu end alike: the same
\* output element for element, both fatal or neither, and if fatal on the
\* same label; and whichever of the two ran left exactly that outcome.
C8_GpuMatchesCpu ==
    AtForward(1) =>
      LET cpu == CpuRun(1)
          gpu == GpuRun(1)
      IN  /\ cpu.data = gpu.data
          /\ cpu.fatal = gpu.fatal
          /\ cpu.label = gpu.label
          /\ phase[1] = "forwarded" => (~cpu.fatal /\ top_data[1] = cpu.data /\ top_data[1] = gpu.data)
          /\ fatal = "label" => (cpu.fatal /\ top_data[1] = cpu.data /\ top_data[1] = gpu.data
                                 /\ log = <<"Unexpected label", gpu.label>>)

\* image mode, background and a foreground channel biased by different biases
C8_Witness ==
    /\ IsImage /\ Completed(1) /\ bg_bias_ = 1 /\ fg_bias_ = 2
    /\ b1_data[1] = <<0, 1>> /\ b0_shape[1][1] = 2
    /\ Out(1, 0, 0, 0) = Act(1, 0, 0, 0) + 1
    /\ Out(1, 1, 1, 0) = Act(1, 1, 1, 0) + 2

\* C10.  A label entry in the ignore set has no effect whatever its value:
\* it biases nothing (a pixel so labelled keeps all its channels, a channel in
\* the ignore set is never biased) and it never ends the run; so with every
\* entry ignored Forward completes with the output equal to the activation.
C10_IgnoreFirst ==
    /\ fatal = "label" => (~Ignored(log[2]) /\ \E k \in Entries(1) : ~Ignored(b1_data[1][k]))
    /\ Completed(1) =>
         /\ IsPixel => \A n \in Samples(1), p \in Pixels(1) :
                         Ignored(PixelLabel(1, n, p)) =>
                           \A c \in Chans(1) : Out(1, n, c, p) = Act(1, n, c, p)
         /\ IsImage => \A n \in Samples(1), c \in Chans(1), p \in Pixels(1) :
                         Ignored(c) => Out(1, n, c, p) = Act(1, n, c, p)
         /\ (\A k \in Entries(1) : Ignored(b1_data[1][k])) => top_data[1] = b0_data[1]

\* pixel mode, ignore_label = (0, 3), two channels: a pixel labelled 0 and a
\* pixel labelled 3 (>= C), bg_bias > 0; the output is the activation
C10_Witness ==
    /\ IsPixel /\ Completed(1) /\ bg_bias_ = 2
    /\ ignore_label_ = {-1, 0, 3} /\ b0_shape[1][2] = 2
    /\ b1_data[1] = <<0, 3>>
    /\ top_data[1] = b0_data[1]

\* What invocation i produces when it runs alone: Forward completes exactly
\* when all its labels are valid, with every label entry applied; Backward
\* leaves the output gradient in the activation gradient if asked for it.
AsAlone(i) ==
    /\ Completed(i) =>
         /\ AllLabelsValid(i)
         /\ \A n \in Samples(i), c \in Chans(i), p \in Pixels(i) :
              Out(i, n, c, p) = PartialOut(i, Len(b1_data[i]), n, c, p)
    /\ phase[i] = "backed" =>
         b0_diff[i] = IF propagate_down[i][1] THEN top_diff[i] ELSE Zeros(Count(b0_shape[i]))

\* The process ended only the way some invocation alone would end it.
FatalAsAlone ==
    /\ fatal # "segv"
    /\ fatal = "label" => \E i \in Invs : phase[i] = "filled" /\ ~AllLabelsValid(i)

\* C9 as stated, for the invocations that complete alone (all labels valid):
\* however the invocations interleave, the output and the gradient of every
\* such invocation are what it produces alone.
C9_Original ==
    \A i \in Invs :
      AllLabelsValid(i) =>
        /\ Completed(i) =>
              \A n \in Samples(i), c \in Chans(i), p \in Pixels(i) :
                Out(i, n, c, p) = PartialOut(i, Len(b1_data[i]), n, c, p)
        /\ phase[i] = "backed" =>
              b0_diff[i] = IF propagate_down[i][1] THEN top_diff[i]
                           ELSE Zeros(Count(b0_shape[i]))

\* the dims Reshape stores for invocation i
DimsOf(i) == <<b0_shape[i][1], b0_shape[i][2], b0_shape[i][3], b0_shape[i][4], b1_shape[i][2]>>
SameDims == \A i \in Invs, j \in Invs :
              (phase[i] # "new" /\ phase[j] # "new") => DimsOf(i) = DimsOf(j)

\* C9, amended.  Reshape stores num_, channels_, height_, width_ and
\* max_labels_ in the layer and Forward reads them; when all invocations bound
\* to the layer have the same activation shape and label channel count, every
\* invocation's output and gradient are what it produces alone, however the
\* invocations interleave.
C9_SameDimsIsolated == SameDims => (FatalAsAlone /\ \A i \in Invs : AsAlone(i))

\* two interleaved invocations of equal shapes and different labels, both
\* past Forward, one past Backward
C9_Witness ==
    /\ SameDims /\ phase[1] = "backed" /\ phase[2] = "forwarded"
    /\ b0_shape[1] = <<2, 2, 1, 1>>
    /\ b1_data[1] = <<1, 0>> /\ b1_data[2] = <<0, -1>>
    /\ top_data[1] # b0_data[1] /\ top_data[2] # b0_data[2] /\ top_data[1] # top_data[2]
    /\ propagate_down[1] = <<TRUE, FALSE>> /\ b0_diff[1] = top_diff[1]

====
